---- MODULE Spec2Model ----
(***************************************************************************)
(* Port finite state machine of                                            *)
(* experimental/tiledb/common/dag/state_machine/fsm.h                      *)
(* (PortFiniteStateMachine<Policy, enumerator>): the state, event and      *)
(* action alphabets, the three tables of each stage count, and the driver  *)
(* event(), run by threads under the FSM's mutex with a pass-through or a  *)
(* blocking action policy.                                                 *)
(***************************************************************************)
EXTENDS Integers, Sequences, FiniteSets, TLC

(***************************************************************************)
(* Bounds of the model.                                                    *)
(***************************************************************************)
\* Number of threads that call into event().
NumThreads == 3

\* The fills, and the drains, that are counted (see SpecCount).
MaxTally == 3

\* The trace lines that are counted (see SpecTrace).
MaxLines == 8

Threads == 1..NumThreads

\* std::mutex mutex_: the owning thread, or Free when unlocked.
Free == 0

\* The diagnostic messages a caller passes: the default "" and a non-empty one.
Msgs == {"", "msg"}

(***************************************************************************)
(* Alphabets.                                                              *)
(***************************************************************************)
\* stages<2>, stages<3>
StageCounts == {2, 3}

\* PortState<two_stage>, in enum order (ordinal = binary encoding)
PortState_2 == <<"st_00", "st_01", "st_10", "st_11", "error", "done">>

\* PortState<three_stage>, in enum order
PortState_3 == <<"st_000", "st_001", "st_010", "st_011",
                 "st_100", "st_101", "st_110", "st_111", "error", "done">>

PortState(N) == IF N = 2 THEN PortState_2 ELSE PortState_3

Range(f) == {f[i] : i \in DOMAIN f}

\* All enumerators of PortState<N>
States(N) == Range(PortState(N))

\* The occupancy states st_0..0 .. st_1..1 (every enumerator but error, done)
Occupancy(N) == States(N) \ {"error", "done"}

\* static_cast<state_t<enumerator>>(0)
InitialState(N) == PortState(N)[1]

\* enum class PortEvent, in enum order
PortEvent == <<"source_fill", "source_push", "sink_drain", "sink_pull",
               "shutdown">>

Events == Range(PortEvent)

\* to_index(PortEvent), shifted to the 1-based columns of a TLA+ sequence
to_index(e) == CHOOSE i \in DOMAIN PortEvent : PortEvent[i] = e

\* enum class PortAction
PortAction == <<"none", "ac_return", "source_move", "sink_move",
                "notify_source", "notify_sink", "source_wait", "sink_wait",
                "error">>

Actions == Range(PortAction)

(***************************************************************************)
(* Tables, indexed by state and event.  Columns:                           *)
(*   source_fill, source_push, sink_drain, sink_pull, shutdown             *)
(***************************************************************************)
transition_table_2 ==
  [ st_00 |-> <<"st_10", "st_00", "error", "st_00", "error">>,
    st_01 |-> <<"st_11", "st_01", "st_00", "st_01", "error">>,
    st_10 |-> <<"error", "st_01", "error", "st_01", "error">>,
    st_11 |-> <<"error", "st_11", "st_10", "st_11", "error">>,
    error |-> <<"error", "error", "error", "error", "error">>,
    done  |-> <<"error", "error", "error", "error", "error">> ]

exit_table_2 ==
  [ st_00 |-> <<"none", "none",        "none", "sink_wait", "none">>,
    st_01 |-> <<"none", "none",        "none", "none",      "none">>,
    st_10 |-> <<"none", "source_move", "none", "sink_move", "none">>,
    st_11 |-> <<"none", "source_wait", "none", "none",      "none">>,
    error |-> <<"none", "none",        "none", "none",      "none">>,
    done  |-> <<"none", "none",        "none", "none",      "none">> ]

entry_table_2 ==
  [ st_00 |-> <<"none",        "none",        "notify_source", "none",      "none">>,
    st_01 |-> <<"none",        "none",        "none",          "none",      "none">>,
    st_10 |-> <<"notify_sink", "source_move", "notify_source", "sink_move", "none">>,
    st_11 |-> <<"notify_sink", "none",        "none",          "none",      "none">>,
    error |-> <<"none",        "none",        "none",          "none",      "none">>,
    done  |-> <<"none",        "none",        "none",          "none",      "none">> ]

transition_table_3 ==
  [ st_000 |-> <<"st_100", "st_000", "error",  "st_000", "error">>,
    st_001 |-> <<"st_101", "st_001", "st_000", "st_001", "error">>,
    st_010 |-> <<"st_110", "st_001", "error",  "st_001", "error">>,
    st_011 |-> <<"st_111", "st_011", "st_010", "st_011", "error">>,
    st_100 |-> <<"error",  "st_001", "error",  "st_001", "error">>,
    st_101 |-> <<"error",  "st_011", "st_100", "st_011", "error">>,
    st_110 |-> <<"error",  "st_011", "error",  "st_011", "error">>,
    st_111 |-> <<"error",  "st_111", "st_110", "st_111", "error">>,
    error  |-> <<"error",  "error",  "error",  "error",  "error">>,
    done   |-> <<"error",  "error",  "error",  "error",  "error">> ]

exit_table_3 ==
  [ st_000 |-> <<"none", "none",        "none", "sink_wait", "none">>,
    st_001 |-> <<"none", "none",        "none", "none",      "none">>,
    st_010 |-> <<"none", "source_move", "none", "sink_move", "none">>,
    st_011 |-> <<"none", "none",        "none", "none",      "none">>,
    st_100 |-> <<"none", "source_move", "none", "sink_move", "none">>,
    st_101 |-> <<"none", "source_move", "none", "sink_move", "none">>,
    st_110 |-> <<"none", "source_move", "none", "sink_move", "none">>,
    st_111 |-> <<"none", "source_wait", "none", "none",      "none">>,
    error  |-> <<"none", "none",        "none", "none",      "none">>,
    done   |-> <<"none", "none",        "none", "none",      "none">> ]

entry_table_3 ==
  [ st_000 |-> <<"none",        "none",        "notify_source", "none",      "none">>,
    st_001 |-> <<"none",        "none",        "none",          "none",      "none">>,
    st_010 |-> <<"none",        "source_move", "notify_source", "sink_move", "none">>,
    st_011 |-> <<"none",        "none",        "none",          "none",      "none">>,
    st_100 |-> <<"notify_sink", "source_move", "notify_source", "sink_move", "none">>,
    st_101 |-> <<"notify_sink", "source_move", "none",          "sink_move", "none">>,
    st_110 |-> <<"notify_sink", "source_move", "notify_source", "sink_move", "none">>,
    st_111 |-> <<"notify_sink", "none",        "none",          "none",      "none">>,
    error  |-> <<"none",        "none",        "none",          "none",      "none">>,
    done   |-> <<"none",        "none",        "none",          "none",      "none">> ]

\* Mutant: the columns sink_drain and sink_pull are exchanged.
transition_table_swapped(N, s, e) ==
  LET c == CASE e = "sink_drain" -> "sink_pull"
             [] e = "sink_pull" -> "sink_drain"
             [] OTHER -> e
  IN  IF N = 2 THEN transition_table_2[s][to_index(c)]
               ELSE transition_table_3[s][to_index(c)]

\* Mutant: a legal fill leaves the source slot as the only full one.
transition_table_fill_resets(N, s, e) ==
  LET n == IF N = 2 THEN transition_table_2[s][to_index(e)]
                    ELSE transition_table_3[s][to_index(e)]
  IN  IF e = "source_fill" /\ n # "error"
        THEN (IF N = 2 THEN "st_10" ELSE "st_100")
        ELSE n

\* Mutant: a fill into a full source slot is dropped, not an error.
transition_table_lenient(N, s, e) ==
  LET n == IF N = 2 THEN transition_table_2[s][to_index(e)]
                    ELSE transition_table_3[s][to_index(e)]
  IN  IF n = "error" /\ s # "error" /\ e = "source_fill" THEN s ELSE n

\* Mutant: the impossible transitions lead to done, not to error.
transition_table_done(N, s, e) ==
  LET n == IF N = 2 THEN transition_table_2[s][to_index(e)]
                    ELSE transition_table_3[s][to_index(e)]
  IN  IF n = "error" /\ s # "error" THEN "done" ELSE n

\* Mutant: the error row is a copy of the row of the initial state.
transition_table_recover(N, s, e) ==
  LET r == IF s = "error" THEN InitialState(N) ELSE s
  IN  IF N = 2 THEN transition_table_2[r][to_index(e)]
               ELSE transition_table_3[r][to_index(e)]

\* Mutant: a drain that finds the sink slot empty and one item elsewhere
\* takes that item.
transition_table_drain_far(N, s, e) ==
  IF e = "sink_drain" /\ s \in {"st_10", "st_010", "st_100"}
    THEN InitialState(N)
  ELSE IF N = 2 THEN transition_table_2[s][to_index(e)]
                ELSE transition_table_3[s][to_index(e)]

\* Mutant: a three-stage push moves the item in the source slot one slot on.
transition_table_push_one(N, s, e) ==
  IF e = "source_push" /\ s = "st_100" THEN "st_010"
  ELSE IF N = 2 THEN transition_table_2[s][to_index(e)]
                ELSE transition_table_3[s][to_index(e)]

\* transition_table<port_state, num_states<enumerator>>[to_index(s)][to_index(e)]
transition_table(N, s, e) ==
  IF N = 2 THEN transition_table_2[s][to_index(e)]
           ELSE transition_table_3[s][to_index(e)]

\* Mutant: a fill that finds the source slot full waits for the source.
exit_table_fill_waits(N, s, e) ==
  IF e = "source_fill" /\ s \in {"st_10", "st_11", "st_100", "st_101",
                                  "st_110", "st_111"}
    THEN "source_wait"
  ELSE IF N = 2 THEN exit_table_2[s][to_index(e)]
                ELSE exit_table_3[s][to_index(e)]

\* exit_table, were a push into a full pipeline not to wait.
exit_table_push_through(N, s, e) ==
  LET a == IF N = 2 THEN exit_table_2[s][to_index(e)]
                    ELSE exit_table_3[s][to_index(e)]
  IN IF a = "source_wait" THEN "none" ELSE a

\* exit_table, were the drain of a full sink slot to have ac_return.
exit_table_returns(N, s, e) ==
  IF e = "sink_drain" /\ s \in {"st_01", "st_11", "st_001", "st_011",
                                 "st_101", "st_111"}
    THEN "ac_return"
  ELSE IF N = 2 THEN exit_table_2[s][to_index(e)]
                ELSE exit_table_3[s][to_index(e)]

\* exit_table, were the moves left to the entry phase.
exit_table_still(N, s, e) ==
  LET a == IF N = 2 THEN exit_table_2[s][to_index(e)]
                    ELSE exit_table_3[s][to_index(e)]
  IN IF a \in {"source_move", "sink_move"} THEN "none" ELSE a

\* exit_table<port_state, num_states<enumerator>>[to_index(s)][to_index(e)]
exit_table(N, s, e) ==
  IF N = 2 THEN exit_table_2[s][to_index(e)]
           ELSE exit_table_3[s][to_index(e)]

\* entry_table, were the rows of error to hold PortAction::error.
entry_table_faulty(N, s, e) ==
  IF s = "error" THEN "error"
  ELSE IF N = 2 THEN entry_table_2[s][to_index(e)]
                ELSE entry_table_3[s][to_index(e)]

\* entry_table, were a drain that empties the pipeline to notify nobody.
entry_table_quiet_drain(N, s, e) ==
  IF e = "sink_drain" /\ s = InitialState(N) THEN "none"
  ELSE IF N = 2 THEN entry_table_2[s][to_index(e)]
                ELSE entry_table_3[s][to_index(e)]

\* entry_table, were a fill to notify the sink whatever state it commits.
entry_table_fill_notifies(N, s, e) ==
  IF e = "source_fill" /\ s \in {"error", "done"} THEN "notify_sink"
  ELSE IF N = 2 THEN entry_table_2[s][to_index(e)]
                ELSE entry_table_3[s][to_index(e)]

\* entry_table, were a fill to notify nobody.
entry_table_silent_fill(N, s, e) ==
  IF e = "source_fill" THEN "none"
  ELSE IF N = 2 THEN entry_table_2[s][to_index(e)]
                ELSE entry_table_3[s][to_index(e)]

\* entry_table<port_state, num_states<enumerator>>[to_index(s)][to_index(e)]
entry_table(N, s, e) ==
  IF N = 2 THEN entry_table_2[s][to_index(e)]
           ELSE entry_table_3[s][to_index(e)]

(***************************************************************************)
(* Pieces of event() that do not depend on the calling thread.             *)
(***************************************************************************)
\* The actions whose case in the two switch statements invokes a callback.
Moves == {"source_move", "sink_move"}

Waits == {"source_wait", "sink_wait"}

Notifies == {"notify_source", "notify_sink"}

\* The cases the switch statements have; anything else takes `default:`.
SwitchCases == {"none", "ac_return"} \cup Moves \cup Waits \cup Notifies

\* The policy member function each case invokes.
Callback(a) ==
  CASE a = "ac_return"     -> "on_ac_return"
    [] a = "source_move"   -> "on_source_move"
    [] a = "sink_move"     -> "on_sink_move"
    [] a = "source_wait"   -> "on_source_wait"
    [] a = "sink_wait"     -> "on_sink_wait"
    [] a = "notify_source" -> "notify_source"
    [] a = "notify_sink"   -> "notify_sink"

\* Mutant: the lookup of the next state is made only when debug is on.
LookupNext_debug(N, f, e) ==
  IF f.debug_ THEN transition_table(N, f.state_, e) ELSE f.next_state_

\* The value event() assigns to next_state_ on entry, for the machine
\* f = [state_, next_state_, debug_] and the event e.
LookupNext(N, f, e) == transition_table(N, f.state_, e)

\* Mutant: no event returns early.
Ignored_never(e) == FALSE

\* `if (PortEvent::shutdown == event) return;`
Ignored(e) == e = "shutdown"

\* `if (msg != "" || debug_)`
Tracing(msg, debug) == msg # "" \/ debug

\* Mutant: the "ERROR On event start" line is printed only when tracing.
StartLines_quiet(e, msg, debug, next) ==
  (IF Tracing(msg, debug) THEN <<"start">> ELSE <<>>)
  \o (IF ~Ignored(e) /\ next = "error" /\ Tracing(msg, debug)
        THEN <<"error">> ELSE <<>>)
  \o (IF ~Ignored(e) /\ Tracing(msg, debug) THEN <<"pre_exit">> ELSE <<>>)

\* The lines printed before the exit switch: "On event start", then (not for
\* shutdown) "ERROR On event start" and "Pre exit event".
StartLines(e, msg, debug, next) ==
  (IF Tracing(msg, debug) THEN <<"start">> ELSE <<>>)
  \o (IF ~Ignored(e) /\ next = "error" THEN <<"error">> ELSE <<>>)
  \o (IF ~Ignored(e) /\ Tracing(msg, debug) THEN <<"pre_exit">> ELSE <<>>)

\* "<msg> exit about to ..." / "<msg> entry about to ...": printed by every
\* case but `none`, when the message is not empty.
AboutLine(phase, a, msg) ==
  IF a \in SwitchCases \ {"none"} /\ msg # ""
    THEN <<phase \o "_about">> ELSE <<>>

\* "Post exit": inside `if (msg != "" || debug_)`, guarded again by msg != "".
PostExitLines(msg, debug) ==
  IF Tracing(msg, debug) /\ msg # "" THEN <<"post_exit">> ELSE <<>>

\* "Pre entry event"
PreEntryLines(msg, debug) ==
  IF Tracing(msg, debug) THEN <<"pre_entry">> ELSE <<>>

\* "Post entry event"
PostEntryLines(msg, debug) ==
  IF Tracing(msg, debug) THEN <<"post_entry">> ELSE <<>>

\* Mutant: the three-stage switch lacks the cases st_100 and st_101.
Collapse_partial(N, s) ==
  IF N = 2 THEN "st_01"
  ELSE CASE s = "st_010" -> "st_001"
         [] s = "st_110" -> "st_011"
         [] OTHER -> s

\* The state left by the code that follows on_source_move / on_sink_move in
\* the entry switch (the same code in both cases).
Collapse(N, s) ==
  IF N = 2 THEN "st_01"
  ELSE CASE s \in {"st_010", "st_100"} -> "st_001"
         [] s \in {"st_110", "st_101"} -> "st_011"
         [] OTHER -> s

\* state_ after the entry switch has run action a in the committed state s.
AfterEntry(N, s, a) == IF a \in Moves THEN Collapse(N, s) ELSE s

\* One whole call of event(e, msg) on the machine f with a policy whose
\* callbacks all return at once: the machine it leaves.
event(N, f, e, msg) ==
  LET next == LookupNext(N, f, e)
      exit_action == exit_table(N, f.state_, e)
      entry_action == entry_table(N, next, e)
      looked == [f EXCEPT !.next_state_ = next]
  IN  IF Ignored(e) THEN looked
      ELSE IF exit_action = "ac_return" \/ exit_action \notin SwitchCases
        THEN looked
      ELSE IF entry_action = "ac_return" \/ entry_action \notin SwitchCases
        THEN [looked EXCEPT !.state_ = next]
      ELSE [looked EXCEPT !.state_ = AfterEntry(N, next, entry_action)]

(***************************************************************************)
(* State.                                                                  *)
(***************************************************************************)
VARIABLES
  stages,       \* num_stages_v<enumerator> of the instantiation: 2 or 3
  policy,       \* the Policy of the instantiation: "pass_through", "blocking"
  state_,       \* PortFiniteStateMachine::state_
  next_state_,  \* PortFiniteStateMachine::next_state_
  debug_,       \* PortFiniteStateMachine::debug_
  mutex_,       \* PortFiniteStateMachine::mutex_: its owner, or Free
  pc,           \* per thread: where it is in event()
  frame,        \* per thread: the arguments and locals of its call of event()
  out,          \* per thread: the lines its call has printed so far
  calls,        \* per thread: the policy callbacks its call has invoked so far
  source_cv,    \* the threads blocked in on_source_wait
  sink_cv,      \* the threads blocked in on_sink_wait
  trail,        \* the events processed since construction, while followed
  twin,         \* a second machine, fed the same events (see SpecDet)
  turn,         \* per thread: the event its loop issues next (see SpecLoop)
  tally,        \* the calls of event() made so far, by event (see SpecCount)
  event_counter,\* PortFiniteStateMachine::event_counter (see SpecTrace)
  cout,         \* the counter values of the lines printed (see SpecTrace)
  query_state_, \* LocalQueryStateMachine::state_
  m_,           \* LocalQueryStateMachine::m_: its owner, or Free
  query_pc      \* per thread: where it is in LocalQueryStateMachine::event()

\* The variables of the trace counter, and of the query state machine.
trace == <<event_counter, cout>>

query == <<query_state_, m_, query_pc>>

vars == <<stages, policy, state_, next_state_, debug_, mutex_, pc, frame, out,
          calls, source_cv, sink_cv, trail, twin, turn,
          tally, trace, query>>

\* The machine as the record the thread-independent pieces work on.
Machine == [state_ |-> state_, next_state_ |-> next_state_, debug_ |-> debug_]

\* The frame of a thread that is not inside event().
NoFrame == [event |-> "-", msg |-> "", old_state |-> "-", exit_action |-> "-",
            entry_action |-> "-", phase |-> "-", result |-> "-"]

(***************************************************************************)
(* The event sequences of the end-to-end scenarios, followed by trail.     *)
(***************************************************************************)
\* fill, push, pull, drain
CycleFillFirst == <<"source_fill", "source_push", "sink_pull", "sink_drain">>

\* pull, fill, push, drain
CyclePullFirst == <<"sink_pull", "source_fill", "source_push", "sink_drain">>

\* fill, push, fill, push, pull, drain, pull, drain
CyclePipelined == <<"source_fill", "source_push", "source_fill", "source_push",
                    "sink_pull", "sink_drain", "sink_pull", "sink_drain">>

\* fill, fill, fill, push, pull, drain, drain, drain
SequenceOverfill == <<"source_fill", "source_fill", "source_fill",
                      "source_push", "sink_pull", "sink_drain", "sink_drain",
                      "sink_drain">>

\* fill, shutdown
SequenceShutdown == <<"source_fill", "shutdown">>

Scenarios == {CycleFillFirst, CyclePullFirst, CyclePipelined, SequenceOverfill,
              SequenceShutdown}

Prefixes(q) == {SubSeq(q, 1, n) : n \in 0..Len(q)}

Followed == UNION {Prefixes(q) : q \in Scenarios}

\* The value of trail once the events processed are no prefix of a scenario.
Unfollowed == <<"-">>

Follow(tr, e) ==
  IF tr # Unfollowed /\ Append(tr, e) \in Followed THEN Append(tr, e)
  ELSE Unfollowed

(***************************************************************************)
(* The action policy (policies are not part of fsm.h).  "pass_through":    *)
(* every callback returns at once.  "blocking": on_source_wait and         *)
(* on_sink_wait release the lock and block on a condition variable until   *)
(* notified, then take the lock again; notify_source and notify_sink wake  *)
(* one thread blocked on the condition, keeping the lock.                  *)
(***************************************************************************)
Policies == {"pass_through", "blocking"}

\* Whether the callback of action a suspends the calling thread.
Suspends(p, a) == p = "blocking" /\ a \in Waits

\* The threads one of which the callback of action a wakes ({Free}: nobody).
Wakes(p, a, src, snk) ==
  IF p = "blocking" /\ a = "notify_source" /\ src # {} THEN src
  ELSE IF p = "blocking" /\ a = "notify_sink" /\ snk # {} THEN snk
  ELSE {Free}

(***************************************************************************)
(* Construction.                                                           *)
(***************************************************************************)
\* PortFiniteStateMachine(): state_ is set to enumerator 0; next_state_ is
\* left uninitialised, so it holds any value.
Constructed(N, p) ==
  /\ stages = N
  /\ policy = p
  /\ state_ = InitialState(N)
  /\ next_state_ \in States(N)
  /\ debug_ = FALSE
  /\ mutex_ = Free
  /\ pc = [t \in Threads |-> "idle"]
  /\ frame = [t \in Threads |-> NoFrame]
  /\ out = [t \in Threads |-> <<>>]
  /\ calls = [t \in Threads |-> <<>>]
  /\ source_cv = {}
  /\ sink_cv = {}

\* PortFiniteStateMachine(const PortFiniteStateMachine&) {}: neither state_
\* nor next_state_ is initialised, so each holds any value (of which the
\* enumerators are the ones the tables can be indexed with).
CopyConstructed(N, p) ==
  /\ stages = N
  /\ policy = p
  /\ state_ \in States(N)
  /\ next_state_ \in States(N)
  /\ debug_ = FALSE
  /\ mutex_ = Free
  /\ pc = [t \in Threads |-> "idle"]
  /\ frame = [t \in Threads |-> NoFrame]
  /\ out = [t \in Threads |-> <<>>]
  /\ calls = [t \in Threads |-> <<>>]
  /\ source_cv = {}
  /\ sink_cv = {}

\* The twin while no second machine is run.
NoTwin == [state_ |-> "-", next_state_ |-> "-", debug_ |-> FALSE]

\* tally while the calls are not counted.
NoTally == [e \in Events |-> 0]

\* turn while the threads follow no loop: any thread issues any event.
NoTurn == [t \in Threads |-> "-"]

\* query_pc of a thread that is not inside LocalQueryStateMachine::event().
NoCall == [at |-> "idle", e |-> "-", old |-> "-"]

\* The trace counter and the query state machine while a specification
\* leaves them out: the lines printed are not counted, no query is run.
Untouched ==
  /\ event_counter = 0
  /\ cout = <<>>
  /\ query_state_ = "uninitialized"
  /\ m_ = Free
  /\ query_pc = [t \in Threads |-> NoCall]

Init ==
  /\ \E N \in StageCounts : Constructed(N, "pass_through")
  /\ trail = <<>>
  /\ twin = NoTwin
  /\ turn = NoTurn
  /\ tally = NoTally
  /\ Untouched

(***************************************************************************)
(* event(), step by step.                                                  *)
(***************************************************************************)
\* Enter, were event() to start without waiting for the lock.
Enter_unlocked(t, e, msg) ==
  LET next == LookupNext(stages, Machine, e) IN
  /\ pc[t] = "idle"
  /\ mutex_' = t
  /\ next_state_' = next
  /\ frame' = [frame EXCEPT ![t] =
       [event |-> e, msg |-> msg, old_state |-> state_,
        exit_action |-> exit_table(stages, state_, e),
        entry_action |-> entry_table(stages, next, e),
        phase |-> "exit",
        result |-> IF Ignored(e) THEN "returned" ELSE "-"]]
  /\ out' = [out EXCEPT ![t] = StartLines(e, msg, debug_, next)]
  /\ calls' = [calls EXCEPT ![t] = <<>>]
  /\ pc' = [pc EXCEPT ![t] = IF Ignored(e) THEN "return" ELSE "exit"]
  /\ trail' = Follow(trail, e)
  /\ UNCHANGED <<stages, policy, state_, debug_, source_cv, sink_cv, twin,
                 query>>

\* Enter, were "state_ = next_state_" to stand before the exit switch.
Enter_commits(t, e, msg) ==
  LET next == LookupNext(stages, Machine, e) IN
  /\ pc[t] = "idle"
  /\ mutex_ = Free
  /\ mutex_' = t
  /\ next_state_' = next
  /\ state_' = IF Ignored(e) THEN state_ ELSE next
  /\ frame' = [frame EXCEPT ![t] =
       [event |-> e, msg |-> msg, old_state |-> state_,
        exit_action |-> exit_table(stages, state_, e),
        entry_action |-> entry_table(stages, next, e),
        phase |-> "exit",
        result |-> IF Ignored(e) THEN "returned" ELSE "-"]]
  /\ out' = [out EXCEPT ![t] = StartLines(e, msg, debug_, next)]
  /\ calls' = [calls EXCEPT ![t] = <<>>]
  /\ pc' = [pc EXCEPT ![t] = IF Ignored(e) THEN "return" ELSE "exit"]
  /\ trail' = Follow(trail, e)
  /\ UNCHANGED <<stages, policy, debug_, source_cv, sink_cv, twin, query>>

\* Thread t calls event(e, msg): it takes the lock, looks the tables up and
\* prints the lines that precede the exit switch; a shutdown returns here.
Enter(t, e, msg) ==
  LET next == LookupNext(stages, Machine, e) IN
  /\ pc[t] = "idle"
  /\ mutex_ = Free
  /\ mutex_' = t
  /\ next_state_' = next
  /\ frame' = [frame EXCEPT ![t] =
       [event |-> e, msg |-> msg, old_state |-> state_,
        exit_action |-> exit_table(stages, state_, e),
        entry_action |-> entry_table(stages, next, e),
        phase |-> "exit",
        result |-> IF Ignored(e) THEN "returned" ELSE "-"]]
  /\ out' = [out EXCEPT ![t] = StartLines(e, msg, debug_, next)]
  /\ calls' = [calls EXCEPT ![t] = <<>>]
  /\ pc' = [pc EXCEPT ![t] = IF Ignored(e) THEN "return" ELSE "exit"]
  /\ trail' = Follow(trail, e)
  /\ UNCHANGED <<stages, policy, state_, debug_, source_cv, sink_cv, twin,
                 query>>

\* What the switch on action a does to the thread: "throw" (default:),
\* "ac_return" (return after on_ac_return), "suspend" (a wait that blocks),
\* "go" (fall out of the switch).
Outcome(p, a) ==
  IF a \notin SwitchCases THEN "throw"
  ELSE IF a = "ac_return" THEN "ac_return"
  ELSE IF Suspends(p, a) THEN "suspend"
  ELSE "go"

\* calls after the switch of the given phase has run action a.
Invoked(cs, phase, a, s) ==
  IF a \in SwitchCases \ {"none"}
    THEN Append(cs, [cb |-> Callback(a), phase |-> phase, state |-> s])
    ELSE cs

\* pc after a switch: of the calling thread t, and of the thread w it woke.
Scheduled(t, to, w) ==
  [u \in Threads |-> IF u = t THEN to ELSE IF u = w THEN "woken" ELSE pc[u]]

\* The exit switch, and the "Post exit" line unless the thread has left
\* event() or is suspended in a wait.
ExitPhase(t) ==
  LET f == frame[t]
      a == f.exit_action
      o == Outcome(policy, a)
  IN
  /\ pc[t] = "exit"
  /\ \E w \in Wakes(policy, a, source_cv, sink_cv) :
       /\ pc' = Scheduled(t, CASE o = "go" -> "commit"
                               [] o = "suspend" -> "waiting"
                               [] OTHER -> "return", w)
       /\ source_cv' = (source_cv \ {w})
                         \cup (IF o = "suspend" /\ a = "source_wait" THEN {t} ELSE {})
       /\ sink_cv' = (sink_cv \ {w})
                         \cup (IF o = "suspend" /\ a = "sink_wait" THEN {t} ELSE {})
  /\ calls' = [calls EXCEPT ![t] = Invoked(@, "exit", a, state_)]
  /\ out' = [out EXCEPT ![t] =
       @ \o AboutLine("exit", a, f.msg)
         \o (IF o = "go" THEN PostExitLines(f.msg, debug_) ELSE <<>>)]
  /\ frame' = [frame EXCEPT ![t].result =
       CASE o = "throw" -> "logic_error"
         [] o = "ac_return" -> "returned"
         [] OTHER -> @]
  /\ mutex_' = IF o = "suspend" THEN Free ELSE mutex_
  /\ UNCHANGED <<stages, policy, state_, next_state_, debug_, trail,
                 twin, turn, tally, query>>

\* A woken thread takes the lock again and its wait callback returns; the
\* switch it was in is left, and the line after that switch printed.
Resume(t) ==
  LET f == frame[t] IN
  /\ pc[t] = "woken"
  /\ mutex_ = Free
  /\ mutex_' = t
  /\ pc' = [pc EXCEPT ![t] = IF f.phase = "exit" THEN "commit" ELSE "return"]
  /\ out' = [out EXCEPT ![t] =
       @ \o (IF f.phase = "exit" THEN PostExitLines(f.msg, debug_)
                                 ELSE PostEntryLines(f.msg, debug_))]
  /\ frame' = [frame EXCEPT ![t].result =
       IF f.phase = "exit" THEN @ ELSE "returned"]
  /\ UNCHANGED <<stages, policy, state_, next_state_, debug_, calls, source_cv,
                 sink_cv, trail, twin, turn, tally, query>>

\* Commit, were the entry action looked up before the exit switch to be used.
Commit_stale(t) ==
  /\ pc[t] = "commit"
  /\ state_' = next_state_
  /\ frame' = [frame EXCEPT ![t].phase = "entry"]
  /\ out' = [out EXCEPT ![t] = @ \o PreEntryLines(frame[t].msg, debug_)]
  /\ pc' = [pc EXCEPT ![t] = "entry"]
  /\ UNCHANGED <<stages, policy, next_state_, debug_, mutex_, calls, source_cv,
                 sink_cv, trail, twin, turn, tally, query>>

\* Commit, were the call to commit the next state it looked up itself.
Commit_own(t) ==
  LET own == transition_table(stages, frame[t].old_state, frame[t].event) IN
  /\ pc[t] = "commit"
  /\ state_' = own
  /\ frame' = [frame EXCEPT
       ![t].entry_action = entry_table(stages, own, frame[t].event),
       ![t].phase = "entry"]
  /\ out' = [out EXCEPT ![t] = @ \o PreEntryLines(frame[t].msg, debug_)]
  /\ pc' = [pc EXCEPT ![t] = "entry"]
  /\ UNCHANGED <<stages, policy, next_state_, debug_, mutex_, calls, source_cv,
                 sink_cv, trail, twin, turn, tally, query>>

\* state_ = next_state_; the entry action is looked up again; "Pre entry".
Commit(t) ==
  /\ pc[t] = "commit"
  /\ state_' = next_state_
  /\ frame' = [frame EXCEPT
       ![t].entry_action = entry_table(stages, next_state_, frame[t].event),
       ![t].phase = "entry"]
  /\ out' = [out EXCEPT ![t] = @ \o PreEntryLines(frame[t].msg, debug_)]
  /\ pc' = [pc EXCEPT ![t] = "entry"]
  /\ UNCHANGED <<stages, policy, next_state_, debug_, mutex_, calls, source_cv,
                 sink_cv, trail, twin, turn, tally, query>>

\* EntryPhase, were a notify to unlock before it signals.
EntryPhase_unlocks(t) ==
  LET f == frame[t]
      a == f.entry_action
      o == Outcome(policy, a)
  IN
  /\ pc[t] = "entry"
  /\ \E w \in Wakes(policy, a, source_cv, sink_cv) :
       /\ pc' = Scheduled(t, IF o = "suspend" THEN "waiting" ELSE "return", w)
       /\ source_cv' = (source_cv \ {w})
                         \cup (IF o = "suspend" /\ a = "source_wait" THEN {t} ELSE {})
       /\ sink_cv' = (sink_cv \ {w})
                         \cup (IF o = "suspend" /\ a = "sink_wait" THEN {t} ELSE {})
  /\ calls' = [calls EXCEPT ![t] = Invoked(@, "entry", a, state_)]
  /\ state_' = IF o = "go" THEN AfterEntry(stages, state_, a) ELSE state_
  /\ out' = [out EXCEPT ![t] =
       @ \o AboutLine("entry", a, f.msg)
         \o (IF o = "go" THEN PostEntryLines(f.msg, debug_) ELSE <<>>)]
  /\ frame' = [frame EXCEPT ![t].result =
       CASE o = "throw" -> "logic_error"
         [] o = "suspend" -> @
         [] OTHER -> "returned"]
  /\ mutex_' = IF o = "suspend" \/ a \in Notifies THEN Free ELSE mutex_
  /\ UNCHANGED <<stages, policy, next_state_, debug_, trail, twin, turn, tally,
                 query>>

\* The entry switch, with the state change that follows a move, and the
\* "Post entry" line unless the thread has left event() or is suspended.
EntryPhase(t) ==
  LET f == frame[t]
      a == f.entry_action
      o == Outcome(policy, a)
  IN
  /\ pc[t] = "entry"
  /\ \E w \in Wakes(policy, a, source_cv, sink_cv) :
       /\ pc' = Scheduled(t, IF o = "suspend" THEN "waiting" ELSE "return", w)
       /\ source_cv' = (source_cv \ {w})
                         \cup (IF o = "suspend" /\ a = "source_wait" THEN {t} ELSE {})
       /\ sink_cv' = (sink_cv \ {w})
                         \cup (IF o = "suspend" /\ a = "sink_wait" THEN {t} ELSE {})
  /\ calls' = [calls EXCEPT ![t] = Invoked(@, "entry", a, state_)]
  /\ state_' = IF o = "go" THEN AfterEntry(stages, state_, a) ELSE state_
  /\ out' = [out EXCEPT ![t] =
       @ \o AboutLine("entry", a, f.msg)
         \o (IF o = "go" THEN PostEntryLines(f.msg, debug_) ELSE <<>>)]
  /\ frame' = [frame EXCEPT ![t].result =
       CASE o = "throw" -> "logic_error"
         [] o = "suspend" -> @
         [] OTHER -> "returned"]
  /\ mutex_' = IF o = "suspend" THEN Free ELSE mutex_
  /\ UNCHANGED <<stages, policy, next_state_, debug_, trail, twin, turn, tally,
                 query>>

\* Return, were the lock taken by mutex_.lock() and the early return on
\* shutdown to leave without unlocking.
Return_leak(t) ==
  /\ pc[t] = "return"
  /\ mutex_' = IF Ignored(frame[t].event) THEN mutex_ ELSE Free
  /\ pc' = [pc EXCEPT ![t] = "idle"]
  /\ frame' = [frame EXCEPT ![t] = NoFrame]
  /\ out' = [out EXCEPT ![t] = <<>>]
  /\ calls' = [calls EXCEPT ![t] = <<>>]
  /\ UNCHANGED <<stages, policy, state_, next_state_, debug_, source_cv,
                 sink_cv, trail, turn, tally, trace, query>>

\* event() is left, by return or by the exception: the lock is released.
Return(t) ==
  /\ pc[t] = "return"
  /\ mutex_' = Free
  /\ pc' = [pc EXCEPT ![t] = "idle"]
  /\ frame' = [frame EXCEPT ![t] = NoFrame]
  /\ out' = [out EXCEPT ![t] = <<>>]
  /\ calls' = [calls EXCEPT ![t] = <<>>]
  /\ UNCHANGED <<stages, policy, state_, next_state_, debug_, source_cv,
                 sink_cv, trail, turn, tally, trace, query>>

(***************************************************************************)
(* The other public members, called by a thread that is not in event().    *)
(* The setters take no lock; they are called, as the tests do, while no    *)
(* thread is inside event().                                               *)
(***************************************************************************)
Quiescent == \A u \in Threads : pc[u] = "idle"

enable_debug(t) ==
  /\ pc[t] = "idle"
  /\ ~debug_
  /\ debug_' = TRUE
  /\ UNCHANGED <<stages, policy, state_, next_state_, mutex_, pc, frame, out,
                 calls, source_cv, sink_cv, trail, twin, turn, tally,
                 trace, query>>

disable_debug(t) ==
  /\ pc[t] = "idle"
  /\ debug_
  /\ debug_' = FALSE
  /\ UNCHANGED <<stages, policy, state_, next_state_, mutex_, pc, frame, out,
                 calls, source_cv, sink_cv, trail, twin, turn, tally,
                 trace, query>>

set_state(s) ==
  /\ Quiescent
  /\ state_' = s
  /\ trail' = Unfollowed
  /\ UNCHANGED <<stages, policy, next_state_, debug_, mutex_, pc, frame, out,
                 calls, source_cv, sink_cv, twin, turn, tally, trace, query>>

set_next_state(s) ==
  /\ Quiescent
  /\ next_state_' = s
  /\ UNCHANGED <<stages, policy, state_, debug_, mutex_, pc, frame, out,
                 calls, source_cv, sink_cv, trail, twin, turn, tally,
                 trace, query>>

(***************************************************************************)
(* The trace lines and event_counter: every line event() prints starts     *)
(* with the value of `event_counter++`.                                    *)
(***************************************************************************)
\* The lines thread t prints in a step.
Emitted(t) == SubSeq(out'[t], Len(out[t]) + 1, Len(out'[t]))

\* Stamps, were the lines of one step to print the counter without
\* incrementing it.
Stamps_reused(c, n) == [i \in 1..n |-> c]

\* The values n successive `event_counter++` yield when the counter is c.
Stamps(c, n) == [i \in 1..n |-> c + i - 1]

\* A step of thread t in which the lines printed are counted, up to
\* MaxLines of them.
Traced(t) ==
  LET n == Len(Emitted(t)) IN
  /\ event_counter + n <= MaxLines
  /\ cout' = cout \o Stamps(event_counter, n)
  /\ event_counter' = event_counter + n

\* A step of a specification that does not count the lines printed.
Untraced == UNCHANGED trace

(***************************************************************************)
(* Specifications.                                                         *)
(***************************************************************************)
\* What a thread may do next, but for leaving event().
Steps(t) ==
  \/ \E e \in Events, msg \in Msgs : Enter(t, e, msg)
         /\ UNCHANGED <<turn, tally, trace>>
  \/ ExitPhase(t) /\ Untraced
  \/ Commit(t) /\ Untraced
  \/ EntryPhase(t) /\ Untraced
  \/ enable_debug(t)
  \/ disable_debug(t)

\* Pass-through policy: threads call event() with any events.
Next ==
  \E t \in Threads :
    \/ Steps(t)
    \/ Return(t) /\ UNCHANGED twin

Spec == Init /\ [][Next]_vars

\* Pass-through policy, with the setters that exist for testing.
NextTest ==
  \/ \E t \in Threads :
       \/ Steps(t)
       \/ Return(t) /\ UNCHANGED twin
  \/ \E s \in States(stages) : set_state(s)
  \/ \E s \in States(stages) : set_next_state(s)

SpecTest == Init /\ [][NextTest]_vars

\* Blocking policy: threads call event() with any events.
InitBlock ==
  /\ \E N \in StageCounts : Constructed(N, "blocking")
  /\ trail = Unfollowed
  /\ twin = NoTwin
  /\ turn = NoTurn
  /\ tally = NoTally
  /\ Untouched

NextBlock ==
  \E t \in Threads :
    \/ Steps(t)
    \/ Return(t) /\ UNCHANGED twin
    \/ Resume(t) /\ Untraced

SpecBlock == InitBlock /\ [][NextBlock]_vars

\* Blocking policy, tracing left off: debug_ stays false and every call
\* passes the default message.
NextQuiet ==
  \E t \in Threads :
    \/ \E e \in Events : Enter(t, e, "") /\ UNCHANGED <<turn, tally, trace>>
    \/ ExitPhase(t) /\ Untraced
    \/ Commit(t) /\ Untraced
    \/ EntryPhase(t) /\ Untraced
    \/ Return(t) /\ UNCHANGED twin
    \/ Resume(t) /\ Untraced

SpecQuiet == InitBlock /\ [][NextQuiet]_vars

\* The policy callbacks one whole call of event(e) invokes on the machine f
\* with a policy whose callbacks all return at once, in order, each with
\* the phase it is invoked in and the state_ it finds.
callbacks(N, f, e) ==
  LET next == LookupNext(N, f, e)
      exit_action == exit_table(N, f.state_, e)
      entry_action == entry_table(N, next, e)
      exits == Invoked(<<>>, "exit", exit_action, f.state_)
  IN  IF Ignored(e) THEN <<>>
      ELSE IF exit_action = "ac_return" \/ exit_action \notin SwitchCases
        THEN exits
      ELSE Invoked(exits, "entry", entry_action, next)

\* Pass-through policy, and a second machine of the same stage count that is
\* fed each event the first has processed, with a message and a debug flag
\* of its own.
InitDet ==
  /\ \E N \in StageCounts : Constructed(N, "pass_through")
  /\ trail = Unfollowed
  /\ twin \in [state_ : {InitialState(stages)}, next_state_ : States(stages),
               debug_ : {FALSE}]
  /\ turn = NoTurn
  /\ tally = NoTally
  /\ Untouched

TwinDebug ==
  /\ twin' = [twin EXCEPT !.debug_ = ~@]
  /\ UNCHANGED <<stages, policy, state_, next_state_, debug_, mutex_, pc, frame,
                 out, calls, source_cv, sink_cv, trail, turn, tally,
                 trace, query>>

NextDet ==
  \/ \E t \in Threads :
       \/ Steps(t)
       \/ \E msg \in Msgs :
            Return(t) /\ twin' = event(stages, twin, frame[t].event, msg)
  \/ TwinDebug

SpecDet == InitDet /\ [][NextDet]_vars

(***************************************************************************)
(* Reading a state as slot bits: to_index(state) is its binary encoding,   *)
(* the source slot the most significant bit, the sink slot the least.      *)
(***************************************************************************)
Ordinal(N, s) == (CHOOSE i \in DOMAIN PortState(N) : PortState(N)[i] = s) - 1

SourceBit(N, s) == (Ordinal(N, s) \div (2 ^ (N - 1))) % 2

SinkBit(N, s) == Ordinal(N, s) % 2

\* Fill while the source slot is full, or drain while the sink slot is empty.
Illegal(N, s, e) ==
  /\ s \in Occupancy(N)
  /\ \/ e = "source_fill" /\ SourceBit(N, s) = 1
     \/ e = "sink_drain" /\ SinkBit(N, s) = 0

\* Pass-through policy, on a machine built by either constructor.
InitCopy ==
  /\ \E N \in StageCounts :
       \/ Constructed(N, "pass_through")
       \/ CopyConstructed(N, "pass_through")
  /\ trail = <<>>
  /\ twin = NoTwin
  /\ turn = NoTurn
  /\ tally = NoTally
  /\ Untouched

SpecCopy == InitCopy /\ [][Next]_vars

\* Pass-through policy, the fills and the drains counted as they are
\* called, up to MaxTally of each.
InitCount ==
  /\ \E N \in StageCounts : Constructed(N, "pass_through")
  /\ trail = Unfollowed
  /\ twin = NoTwin
  /\ turn = NoTurn
  /\ tally = NoTally
  /\ Untouched

Counted(t, e, msg) ==
  /\ e \in {"source_fill", "sink_drain"} => tally[e] < MaxTally
  /\ Enter(t, e, msg)
  /\ tally' = IF e \in {"source_fill", "sink_drain"}
                THEN [tally EXCEPT ![e] = @ + 1] ELSE tally
  /\ UNCHANGED turn

NextCount ==
  \E t \in Threads :
    \/ \E e \in Events, msg \in Msgs : Counted(t, e, msg) /\ Untraced
    \/ ExitPhase(t) /\ Untraced
    \/ Commit(t) /\ Untraced
    \/ EntryPhase(t) /\ Untraced
    \/ Return(t) /\ UNCHANGED twin

SpecCount == InitCount /\ [][NextCount]_vars

(***************************************************************************)
(* Threads that run the loops of a producer and of consumers, with the     *)
(* blocking policy: thread 1 repeats fill; push, thread 2 repeats pull;    *)
(* drain, and each further thread either does the same as thread 2 or      *)
(* never calls.                                                            *)
(***************************************************************************)
Producer == 1

Consumer == 2

\* The loop of thread t, and the event that follows e in it.
Loop(t) ==
  IF t = Producer THEN <<"source_fill", "source_push">>
  ELSE <<"sink_pull", "sink_drain">>

NextTurn(t, e) == IF e = Loop(t)[1] THEN Loop(t)[2] ELSE Loop(t)[1]

\* The threads that run a loop.
Looping == {t \in Threads : turn[t] # "-"}

InitLoop ==
  /\ \E N \in StageCounts : Constructed(N, "blocking")
  /\ trail = Unfollowed
  /\ twin = NoTwin
  /\ turn \in {f \in [Threads -> {"-", "source_fill", "sink_pull"}] :
                 /\ f[Producer] = "source_fill"
                 /\ f[Consumer] = "sink_pull"
                 /\ \A t \in Threads \ {Producer, Consumer} :
                      f[t] \in {"-", "sink_pull"}}
  /\ tally = NoTally
  /\ Untouched

\* Thread t makes the next call of its loop.
Call(t) ==
  /\ t \in Looping
  /\ \E msg \in Msgs : Enter(t, turn[t], msg)
  /\ turn' = [turn EXCEPT ![t] = NextTurn(t, @)]
  /\ UNCHANGED tally

NextLoop ==
  \E t \in Threads :
    \/ Call(t) /\ Untraced
    \/ ExitPhase(t) /\ Untraced
    \/ Commit(t) /\ Untraced
    \/ EntryPhase(t) /\ Untraced
    \/ Return(t) /\ UNCHANGED twin
    \/ Resume(t) /\ Untraced

SpecLoop == InitLoop /\ [][NextLoop]_vars

\* One producer and one consumer only, each thread scheduled fairly: a
\* step of a loop that stays possible is eventually taken.
InitPair == InitLoop /\ Looping = {Producer, Consumer}

Step(t) ==
  \/ Call(t) /\ Untraced
  \/ ExitPhase(t) /\ Untraced
  \/ Commit(t) /\ Untraced
  \/ EntryPhase(t) /\ Untraced
  \/ Return(t) /\ UNCHANGED twin
  \/ Resume(t) /\ Untraced

NextPair == \E t \in Threads : Step(t)

SpecPair ==
  /\ InitPair
  /\ [][NextPair]_vars
  /\ \A t \in {Producer, Consumer} : WF_vars(Step(t))

\* One producer and one consumer with the blocking policy, debug_ switched
\* on and off by any thread outside event(), the lines printed counted.
NextTrace ==
  \E t \in Threads :
    \/ Call(t) /\ Traced(t)
    \/ ExitPhase(t) /\ Traced(t)
    \/ Commit(t) /\ Traced(t)
    \/ EntryPhase(t) /\ Traced(t)
    \/ Return(t) /\ UNCHANGED twin
    \/ Resume(t) /\ Traced(t)
    \/ enable_debug(t)
    \/ disable_debug(t)

SpecTrace == InitPair /\ [][NextTrace]_vars

\* The same loops, with either policy.
InitEither ==
  /\ \E N \in StageCounts, p \in Policies : Constructed(N, p)
  /\ trail = Unfollowed
  /\ twin = NoTwin
  /\ turn \in {f \in [Threads -> {"-", "source_fill", "sink_pull"}] :
                 /\ f[Producer] = "source_fill"
                 /\ f[Consumer] = "sink_pull"
                 /\ \A t \in Threads \ {Producer, Consumer} :
                      f[t] \in {"-", "sink_pull"}}
  /\ tally = NoTally
  /\ Untouched

SpecEither == InitEither /\ [][NextLoop]_vars

\* The slot of state s at position i, 1 the source end and N the sink end.
Slot(N, s, i) == (Ordinal(N, s) \div (2 ^ (N - i))) % 2

\* Whether in state s an item has an empty slot before it to move into.
Movable(N, s) ==
  /\ s \in Occupancy(N)
  /\ \E i \in 1..(N - 1) : Slot(N, s, i) = 1 /\ Slot(N, s, i + 1) = 0

(***************************************************************************)
(* Properties.                                                             *)
(***************************************************************************)
\* C1: Shutdown neutrality.  Every step a thread takes in a call of
\* event(shutdown) - the call and the return - leaves state_ as it is, in
\* every state (error and done included), and the call invokes no policy
\* callback.
ShutdownNeutral ==
  [][\A t \in Threads :
       (pc'[t] # pc[t] /\ "shutdown" \in {frame[t].event, frame'[t].event})
         => /\ state_' = state_
            /\ calls[t] = <<>>
            /\ calls'[t] = <<>>]_vars

\* C1 witness: a shutdown processed in st_100 is about to return, the state
\* still st_100.
ShutdownProcessed ==
  \E t \in Threads :
    /\ pc[t] = "return"
    /\ frame[t].event = "shutdown"
    /\ frame[t].old_state = "st_100"
    /\ state_ = "st_100"

\* C2 as claimed: whenever no call of event() is in progress, state_ is an
\* occupancy state.
StateAlwaysOccupancy == mutex_ = Free => state_ \in Occupancy(stages)

\* C2 amended: state_ is always an occupancy state or error, never done.
StateNeverDone == state_ \in Occupancy(stages) \cup {"error"}

\* C2 witness: event() has returned and left error in state_.
ErrorStored == mutex_ = Free /\ state_ = "error"

\* C3: a call that finds an illegal fill or drain returns normally, with
\* error in state_ and the "ERROR" line among the lines it printed.
IllegalTransitionRecorded ==
  \A t \in Threads :
    (pc[t] = "return" /\ Illegal(stages, frame[t].old_state, frame[t].event))
      => /\ frame[t].result = "returned"
         /\ state_ = "error"
         /\ "error" \in Range(out[t])

\* C3 witness: an illegal drain is about to return, debug off and the message
\* empty, and the "ERROR" line is all it printed.
IllegalDrainQuiet ==
  \E t \in Threads :
    /\ pc[t] = "return"
    /\ frame[t].event = "sink_drain"
    /\ frame[t].old_state = InitialState(stages)
    /\ frame[t].msg = ""
    /\ ~debug_
    /\ out[t] = <<"error">>

\* C4: in both tables the error row and the done row lead to error for every
\* event, and a step never takes state_ from error to another state.
ErrorAbsorbing ==
  /\ \A N \in StageCounts : \A s \in {"error", "done"} : \A e \in Events :
       transition_table(N, s, e) = "error"
  /\ [][state_ = "error" => state_' = "error"]_vars

\* C4 witness: a push processed in error has committed error again.
ErrorCommittedAgain ==
  \E t \in Threads :
    /\ pc[t] = "return"
    /\ frame[t].event = "source_push"
    /\ frame[t].old_state = "error"
    /\ state_ = "error"

\* C5: Determinism.  Two machines of the same stage count, both with the
\* pass-through policy and fed the same events, hold the same state after
\* every event, whatever their debug flags, the messages of the calls and
\* the values their next_state_ held at construction.
Determinism == mutex_ = Free => state_ = twin.state_

\* C5 witness: after some events the two machines are in st_011, one with
\* debug on and one with debug off.
DeterminismReached ==
  /\ mutex_ = Free
  /\ state_ = "st_011"
  /\ twin.state_ = "st_011"
  /\ debug_ # twin.debug_

\* state_ after each event of the first n events of the scenario q, as given
\* by `expected`, once event() has returned.
Visits(N, q, expected) ==
  (stages = N /\ mutex_ = Free) =>
    \A n \in 1..Len(q) : trail = SubSeq(q, 1, n) => state_ = expected[n]

\* C6: two-stage, pass-through: fill, push, pull, drain visits st_10, st_01,
\* st_01, st_00; pull, fill, push, drain visits st_00, st_10, st_01, st_00,
\* its pull invoking on_sink_wait in the exit phase, in st_00.
TwoStageCycles ==
  /\ Visits(2, CycleFillFirst, <<"st_10", "st_01", "st_01", "st_00">>)
  /\ Visits(2, CyclePullFirst, <<"st_00", "st_10", "st_01", "st_00">>)
  /\ \A t \in Threads :
       (stages = 2 /\ pc[t] = "return" /\ trail = <<"sink_pull">>)
         => calls[t] = <<[cb |-> "on_sink_wait", phase |-> "exit",
                          state |-> "st_00"]>>

\* C6 witness: the two-stage machine has processed pull, fill, push, drain.
TwoStageCycleDone ==
  stages = 2 /\ mutex_ = Free /\ trail = CyclePullFirst /\ state_ = "st_00"

\* C7: three-stage, pass-through: fill, push, pull, drain visits st_100,
\* st_001, st_001, st_000; fill, push, fill, push, pull, drain, pull, drain
\* visits st_100, st_001, st_101, st_011, st_011, st_010, st_001, st_000.
ThreeStageCycles ==
  /\ Visits(3, CycleFillFirst, <<"st_100", "st_001", "st_001", "st_000">>)
  /\ Visits(3, CyclePipelined, <<"st_100", "st_001", "st_101", "st_011",
                                 "st_011", "st_010", "st_001", "st_000">>)

\* C7 witness: the three-stage machine has processed the pipelined sequence.
ThreeStageCycleDone ==
  stages = 3 /\ mutex_ = Free /\ trail = CyclePipelined /\ state_ = "st_000"

\* C8: three-stage, pass-through: fill, fill, fill, push, pull, drain, drain,
\* drain visits st_100 and then error after every further event.
OverfillStaysError ==
  Visits(3, SequenceOverfill, <<"st_100", "error", "error", "error", "error",
                                "error", "error", "error">>)

\* C8 witness: the three-stage machine has processed the whole sequence.
OverfillDone ==
  stages = 3 /\ mutex_ = Free /\ trail = SequenceOverfill /\ state_ = "error"

\* A call of event() by thread t, about to return, that was a fill looked up
\* in st_100 of the three-stage machine with the blocking policy.
SecondFill(t) ==
  /\ policy = "blocking"
  /\ stages = 3
  /\ pc[t] = "return"
  /\ frame[t].event = "source_fill"
  /\ frame[t].old_state = "st_100"

\* C9 as claimed: the second fill invokes on_source_wait and does not leave
\* error in state_.
SecondFillWaits ==
  \A t \in Threads :
    SecondFill(t)
      => /\ state_ # "error"
         /\ \E i \in DOMAIN calls[t] : calls[t][i].cb = "on_source_wait"

\* C9 amended: the second fill has no exit action, invokes no callback and
\* leaves error in state_.
SecondFillIsError ==
  \A t \in Threads :
    SecondFill(t)
      => /\ frame[t].exit_action = "none"
         /\ calls[t] = <<>>
         /\ state_ = "error"

\* C9 witness: a second fill is made while another thread, woken from its
\* wait callback by the first fill, has not yet taken the lock again.
SecondFillDone ==
  \E t \in Threads : SecondFill(t) /\ \E u \in Threads : pc[u] = "woken"

\* Whether the last callback the call of thread t invoked is an entry-phase
\* on_source_move / on_sink_move.
EntryMoved(t) ==
  /\ calls[t] # <<>>
  /\ calls[t][Len(calls[t])].phase = "entry"
  /\ calls[t][Len(calls[t])].cb \in {"on_source_move", "on_sink_move"}

\* The state in which that callback was invoked (the committed state).
MovedFrom(t) == calls[t][Len(calls[t])].state

\* C10: after an entry-phase move state_ is st_01 (two-stage), st_001 if the
\* committed state was st_010 or st_100, st_011 if it was st_110 or st_101
\* (three-stage); the committed state is never another one.
MoveCollapse ==
  \A t \in Threads :
    (pc[t] = "return" /\ EntryMoved(t))
      => /\ stages = 2 => state_ = "st_01"
         /\ stages = 3 =>
              \/ MovedFrom(t) \in {"st_010", "st_100"} /\ state_ = "st_001"
              \/ MovedFrom(t) \in {"st_110", "st_101"} /\ state_ = "st_011"

\* C10 witness: a three-stage push that waited in st_111 has, on resuming,
\* made an entry-phase move in a committed state with two items.
MoveCollapsed ==
  \E t \in Threads :
    /\ pc[t] = "return"
    /\ EntryMoved(t)
    /\ frame[t].event = "source_push"
    /\ MovedFrom(t) \in {"st_110", "st_101"}
    /\ state_ = "st_011"

\* The places in event() where the calling thread owns the lock.
Locked == {"exit", "commit", "entry", "return"}

\* C11: a thread that is outside event() does not own mutex_, whichever way
\* it left its last call (return at the end, early return on shutdown).
MutexInvariant == \A t \in Threads : pc[t] = "idle" => mutex_ # t

\* C11 witness: every thread is outside event() and the lock is free after
\* an early return on shutdown (only the lookup of a shutdown leaves error
\* in next_state_ beside st_10 in state_).
MutexReleased ==
  /\ Quiescent
  /\ mutex_ = Free
  /\ state_ = "st_10"
  /\ next_state_ = "error"

\* Whether the call of thread t has entered a wait callback.
Waited(t) ==
  \E i \in DOMAIN calls[t] : calls[t][i].cb \in {"on_source_wait", "on_sink_wait"}

\* C12: a call of event() that has entered no wait callback owns the lock
\* from its lookup to its return: until it commits, state_ and next_state_
\* are what its lookup found and wrote, so that no other call has read or
\* written them in between, and it commits transition_table[s][e] for the
\* state s the previous owner of the lock left.  A thread inside event()
\* gives the lock up only by entering a wait callback.
Atomicity ==
  /\ [](\A t \in Threads :
          /\ pc[t] \in Locked => mutex_ = t
          /\ (pc[t] \in {"exit", "commit"} /\ ~Waited(t))
               => /\ state_ = frame[t].old_state
                  /\ next_state_ = transition_table(stages, frame[t].old_state,
                                                    frame[t].event)
          /\ (pc[t] = "entry" /\ ~Waited(t))
               => state_ = transition_table(stages, frame[t].old_state,
                                            frame[t].event))
  /\ [][\A t \in Threads :
          (mutex_ = t /\ mutex_' # t) => pc'[t] \in {"idle", "waiting"}]_vars

\* C12 witness: a call that never waited has committed a new state while
\* another thread, woken from a wait, is contending for the lock.
AtomicCommit ==
  \E t, u \in Threads :
    /\ pc[t] = "entry"
    /\ ~Waited(t)
    /\ state_ # frame[t].old_state
    /\ pc[u] = "woken"

\* C13 as claimed: a thread that was suspended in on_source_wait or
\* on_sink_wait never, on resuming, takes state_ from an occupancy state to
\* error by its commit - whatever shutdown events were processed meanwhile.
ResumedCommitSound ==
  [][\A t \in Threads :
       (pc[t] = "commit" /\ pc'[t] = "entry" /\ Waited(t)
          /\ state_ \in Occupancy(stages))
         => state_' # "error"]_vars

\* C14: the callback of the exit action is the first a call invokes, in the
\* state the call found; the callbacks of the entry action come after the
\* commit, in the state committed; a notify_source or notify_sink is
\* invoked while state_ is the committed next_state_.
PhaseOrder ==
  \A t \in Threads : \A i \in DOMAIN calls[t] :
    LET c == calls[t][i] IN
    /\ c.phase = "exit" => (i = 1 /\ c.state = frame[t].old_state)
    /\ c.phase = "entry"
         => /\ i = Len(calls[t])
            /\ frame[t].phase = "entry"
            /\ pc[t] \in Locked => c.state = next_state_
            /\ (pc[t] \in Locked /\ c.cb \in {"notify_source", "notify_sink"})
                 => state_ = next_state_

\* C14 witness: a call has invoked a callback in each phase, the first in
\* the state it found and the second in another, committed, state.
PhaseOrderSeen ==
  \E t \in Threads :
    /\ pc[t] = "return"
    /\ Len(calls[t]) = 2
    /\ calls[t][1].phase = "exit"
    /\ calls[t][2].phase = "entry"
    /\ calls[t][2].state # calls[t][1].state

\* C15: a thread woken from its wait callback returns from it only while no
\* other thread is inside event() with the lock - the call that notified it
\* has returned, or has itself entered a wait.
WakeAfterRelease ==
  [][\A t \in Threads :
       (pc[t] = "woken" /\ pc'[t] # "woken")
         => /\ mutex_ = Free
            /\ \A u \in Threads \ {t} : pc[u] \notin Locked]_vars

\* C15 witness: a thread that waited has returned from its wait callback
\* and finds the state the notifying call left.
WokenResumed ==
  \E t \in Threads :
    /\ pc[t] = "commit"
    /\ Waited(t)
    /\ mutex_ = t
    /\ state_ # frame[t].old_state
    /\ \A u \in Threads \ {t} : pc[u] = "idle"

\* C16 as claimed: with one producer and any number of consumers running
\* their loops, state_ is never error and no move callback is invoked in a
\* state where no item can move.
LoopsSound ==
  /\ state_ # "error"
  /\ \A t \in Threads : \A i \in DOMAIN calls[t] :
       calls[t][i].cb \in {"on_source_move", "on_sink_move"}
         => Movable(stages, calls[t][i].state)

\* C16 amended: with one producer and one consumer running their loops,
\* state_ is never error and no move callback is invoked in a state where
\* no item can move.
OneConsumerSound == Looping = {Producer, Consumer} => LoopsSound

\* C16 witness: with one producer and one consumer, the consumer's pull has
\* waited and, resumed, has moved the item in its entry phase.
OneConsumerMoved ==
  /\ Looping = {Producer, Consumer}
  /\ pc[Consumer] = "return"
  /\ Waited(Consumer)
  /\ EntryMoved(Consumer)

\* The entry action the lookup before the exit switch finds for the call of
\* thread t, when no other call comes in between.
EarlyEntryAction(t) ==
  entry_table(stages,
              transition_table(stages, frame[t].old_state, frame[t].event),
              frame[t].event)

\* C17: the entry action a call executes is entry_table[s][e] for the state
\* s it has just committed and its event e, and the callback of its entry
\* phase is that action's.
EntryActionReread ==
  \A t \in Threads :
    /\ pc[t] = "entry"
         => frame[t].entry_action = entry_table(stages, state_, frame[t].event)
    /\ \A i \in DOMAIN calls[t] :
         calls[t][i].phase = "entry"
           => calls[t][i].cb =
                Callback(entry_table(stages, calls[t][i].state, frame[t].event))

\* C17 witness: a pull that waited in st_000 executes sink_move, the entry
\* action of the state it committed on resuming, where the lookup before
\* the exit switch had found none.
EntryActionChanged ==
  \E t \in Threads :
    /\ pc[t] = "return"
    /\ frame[t].event = "sink_pull"
    /\ frame[t].old_state = "st_000"
    /\ EarlyEntryAction(t) = "none"
    /\ frame[t].entry_action = "sink_move"
    /\ EntryMoved(t)

\* The actions the exit and entry tables hold, for any state and event.
TableActions ==
  UNION {UNION {{exit_table(N, s, e), entry_table(N, s, e)} :
                  s \in States(N), e \in Events} :
           N \in StageCounts}

\* C18: no entry of an exit or entry table is ac_return, and no call of
\* event() invokes on_ac_return or returns from inside a switch.
NoAcReturn ==
  /\ "ac_return" \notin TableActions
  /\ \A t \in Threads :
       /\ \A i \in DOMAIN calls[t] : calls[t][i].cb # "on_ac_return"
       /\ pc[t] = "return"
            => \/ Ignored(frame[t].event)
               \/ frame[t].phase = "entry"

\* C18 witness: a drain has run both switches, invoked notify_source as the
\* callback of its entry action and is about to return at the end.
DrainNotified ==
  \E t \in Threads :
    /\ pc[t] = "return"
    /\ frame[t].event = "sink_drain"
    /\ frame[t].phase = "entry"
    /\ calls[t] = <<[cb |-> "notify_source", phase |-> "entry", state |-> state_]>>

\* C19: every exit action and every entry action the tables hold, for the
\* states error and done as for the others, is an action other than error,
\* which both switches have a case for; no call of event() ends with the
\* std::logic_error of their default.
NoLogicFault ==
  /\ TableActions \subseteq Actions \ {"error"}
  /\ Actions \ {"error"} \subseteq SwitchCases
  /\ \A t \in Threads :
       /\ frame[t].result # "logic_error"
       /\ pc[t] = "exit" => Outcome(policy, frame[t].exit_action) # "throw"
       /\ pc[t] = "entry" => Outcome(policy, frame[t].entry_action) # "throw"

\* C19 witness: a push processed in state error has run both switches and
\* returns normally.
ErrorStatePush ==
  \E t \in Threads :
    /\ pc[t] = "return"
    /\ frame[t].event = "source_push"
    /\ frame[t].old_state = "error"
    /\ frame[t].phase = "entry"
    /\ frame[t].result = "returned"

\* C20 as claimed: while no event has been processed since construction,
\* by whichever constructor, state_ is the all-empty state.
InitialStateEmpty == trail = <<>> => state_ = InitialState(stages)

\* Whether thread t is about to return from the call that ends the events
\* q, the events processed since construction.
Ends(t, q) ==
  /\ pc[t] = "return"
  /\ trail = q
  /\ frame[t].event = q[Len(q)]

\* C21 as claimed: in the cycle fill, push, pull, drain the push reaches
\* st_01 / st_001 by an entry-phase move and its collapse, and so does the
\* pull of the two-stage cycle.
CycleMovesInEntry ==
  \A t \in Threads :
    /\ Ends(t, <<"source_fill", "source_push">>) => EntryMoved(t)
    /\ (stages = 2 /\ Ends(t, <<"source_fill", "source_push", "sink_pull">>))
         => EntryMoved(t)

\* C21 amended: the push of the cycle invokes on_source_move in its exit
\* phase, in st_10 / st_100, and commits the st_01 / st_001 of the
\* transition table with entry action none; the pull that follows finds
\* st_01 / st_001 and invokes no callback.
CycleMovesInExit ==
  \A t \in Threads :
    /\ Ends(t, <<"source_fill", "source_push">>)
         => /\ calls[t] = <<[cb |-> "on_source_move", phase |-> "exit",
                             state |-> IF stages = 2 THEN "st_10" ELSE "st_100"]>>
            /\ frame[t].entry_action = "none"
            /\ state_ = next_state_
            /\ state_ = IF stages = 2 THEN "st_01" ELSE "st_001"
    /\ Ends(t, <<"source_fill", "source_push", "sink_pull">>)
         => /\ calls[t] = <<>>
            /\ frame[t].old_state = state_
            /\ state_ = IF stages = 2 THEN "st_01" ELSE "st_001"

\* C21 witness: the pull of the two-stage cycle is about to return, having
\* invoked no callback.
CyclePullQuiet ==
  \E t \in Threads :
    /\ stages = 2
    /\ Ends(t, <<"source_fill", "source_push", "sink_pull">>)
    /\ calls[t] = <<>>
    /\ frame[t].phase = "entry"

\* The state whose slot bits are the binary digits of k.
StateAt(N, k) == PortState(N)[k + 1]

\* What the slot-bit reading has fill and drain do in occupancy state s:
\* fill sets the source bit if it is 0, drain clears the sink bit if it is
\* 1, and either is an error otherwise.
ByBits(N, s, e) ==
  IF e = "source_fill"
    THEN (IF SourceBit(N, s) = 0
            THEN StateAt(N, Ordinal(N, s) + 2 ^ (N - 1)) ELSE "error")
    ELSE (IF SinkBit(N, s) = 1
            THEN StateAt(N, Ordinal(N, s) - 1) ELSE "error")

\* The tables agree with that reading, for both stage counts.
TablesByBits ==
  \A N \in StageCounts : \A s \in Occupancy(N) :
    \A e \in {"source_fill", "sink_drain"} :
      transition_table(N, s, e) = ByBits(N, s, e)

\* C22: in every occupancy state fill is legal exactly when the source bit
\* is 0 and then sets only that bit, drain exactly when the sink bit is 1
\* and then clears only that bit, and otherwise each leads to error; a call
\* of fill or drain leaves that state in state_.
FillDrainByBits ==
  /\ TablesByBits
  /\ \A t \in Threads :
       (pc[t] = "return" /\ frame[t].event \in {"source_fill", "sink_drain"}
          /\ frame[t].old_state \in Occupancy(stages))
         => state_ = ByBits(stages, frame[t].old_state, frame[t].event)

\* C22 witness: a drain of st_101 is about to return, the sink bit alone
\* cleared.
DrainClearedSink ==
  \E t \in Threads :
    /\ pc[t] = "return"
    /\ frame[t].event = "sink_drain"
    /\ frame[t].old_state = "st_101"
    /\ state_ = "st_100"

\* The number of full slots of occupancy state s.
Ones(N, s) == Cardinality({i \in 1..N : Slot(N, s, i) = 1})

\* The occupancy states whose items are packed toward the sink.
Packed(N) == {StateAt(N, 2 ^ k - 1) : k \in 0..N}

\* Push and pull have the same column in the transition tables; from an
\* occupancy state it holds a packed state with as many full slots.
TablesPushPull ==
  \A N \in StageCounts : \A s \in States(N) :
    /\ transition_table(N, s, "source_push") = transition_table(N, s, "sink_pull")
    /\ s \in Occupancy(N)
         => /\ transition_table(N, s, "source_push") \in Packed(N)
            /\ Ones(N, transition_table(N, s, "source_push")) = Ones(N, s)

\* C23: push and pull have the same next state from every state; from an
\* occupancy state it is never error, has as many full slots and is one of
\* st_00, st_01, st_11 / st_000, st_001, st_011, st_111, and a call of push
\* or pull leaves it in state_.
PushPullPack ==
  /\ TablesPushPull
  /\ Packed(2) = {"st_00", "st_01", "st_11"}
  /\ Packed(3) = {"st_000", "st_001", "st_011", "st_111"}
  /\ \A t \in Threads :
       (pc[t] = "return" /\ frame[t].event \in {"source_push", "sink_pull"}
          /\ frame[t].old_state \in Occupancy(stages))
         => /\ state_ = transition_table(stages, frame[t].old_state, "source_push")
            /\ state_ = transition_table(stages, frame[t].old_state, "sink_pull")
            /\ state_ \in Packed(stages)
            /\ Ones(stages, state_) = Ones(stages, frame[t].old_state)

\* C23 witness: a pull of st_110 is about to return, both items moved on
\* to st_011.
PullPacked ==
  \E t \in Threads :
    /\ pc[t] = "return"
    /\ frame[t].event = "sink_pull"
    /\ frame[t].old_state = "st_110"
    /\ state_ = "st_011"

\* C24: while no call is in progress and state_ is not error, the number
\* of full slots is the number of fills less the number of drains called
\* since construction, and so lies between 0 and the stage count.
ItemsConserved ==
  (mutex_ = Free /\ state_ # "error")
    => /\ state_ \in Occupancy(stages)
       /\ Ones(stages, state_) = tally["source_fill"] - tally["sink_drain"]
       /\ Ones(stages, state_) \in 0..stages

\* C24 witness: after three fills and a drain two slots are full.
TwoItemsLeft ==
  /\ mutex_ = Free
  /\ state_ = "st_011"
  /\ tally["source_fill"] = 3
  /\ tally["sink_drain"] = 1

\* The all-full and the all-empty state.
FullState(N) == StateAt(N, 2 ^ N - 1)

\* The waits the tables hold: in the exit tables source_wait for a push in
\* the all-full state and sink_wait for a pull in the all-empty state and
\* nowhere else, in the entry tables none.
TablesWaitAtExtremes ==
  \A N \in StageCounts : \A s \in States(N) : \A e \in Events :
    /\ exit_table(N, s, e) = "source_wait"
         <=> (s = FullState(N) /\ e = "source_push")
    /\ exit_table(N, s, e) = "sink_wait"
         <=> (s = InitialState(N) /\ e = "sink_pull")
    /\ entry_table(N, s, e) \notin Waits

\* C25: on_source_wait is invoked only in the exit phase of a push that
\* found the all-full state, on_sink_wait only in the exit phase of a pull
\* that found the all-empty state; a fill or a drain invokes neither.
WaitsAtExtremes ==
  /\ TablesWaitAtExtremes
  /\ \A t \in Threads : \A i \in DOMAIN calls[t] :
       LET c == calls[t][i] IN
       /\ c.cb = "on_source_wait"
            => /\ c.phase = "exit"
               /\ frame[t].event = "source_push"
               /\ frame[t].old_state = FullState(stages)
       /\ c.cb = "on_sink_wait"
            => /\ c.phase = "exit"
               /\ frame[t].event = "sink_pull"
               /\ frame[t].old_state = InitialState(stages)

\* C25 witness: a producer is blocked in the on_source_wait of a push in
\* st_111 while a consumer is blocked in the on_sink_wait of a pull that
\* found st_000.
BothWaited ==
  \E t, u \in Threads :
    /\ stages = 3
    /\ pc[t] = "waiting"
    /\ frame[t].event = "source_push"
    /\ t \in source_cv
    /\ pc[u] \in {"waiting", "woken"}
    /\ frame[u].event = "sink_pull"
    /\ Waited(u)

\* The notifies the tables hold: none in the exit tables, and in the entry
\* tables only notify_sink for a fill and notify_source for a drain.
TablesNotify ==
  \A N \in StageCounts : \A s \in States(N) : \A e \in Events :
    /\ exit_table(N, s, e) \notin Notifies
    /\ entry_table(N, s, e) = "notify_sink" => e = "source_fill"
    /\ entry_table(N, s, e) = "notify_source" => e = "sink_drain"

\* Whether the call of thread t found an occupancy state in which its event
\* is legal.
Legal(t) ==
  /\ frame[t].old_state \in Occupancy(stages)
  /\ transition_table(stages, frame[t].old_state, frame[t].event) # "error"

\* C26: a legal fill invokes notify_sink, and a legal drain notify_source,
\* once and as its only callback, in its entry phase with the new state
\* committed; no other call invokes a notify, and none is invoked in an
\* exit phase.
NotifyOnce ==
  /\ TablesNotify
  /\ \A t \in Threads :
       /\ (pc[t] = "return" /\ Legal(t)
             /\ frame[t].event \in {"source_fill", "sink_drain"})
            => /\ state_ = transition_table(stages, frame[t].old_state,
                                            frame[t].event)
               /\ calls[t] =
                    <<[cb |-> IF frame[t].event = "source_fill"
                                THEN "notify_sink" ELSE "notify_source",
                       phase |-> "entry", state |-> state_]>>
       /\ \A i \in DOMAIN calls[t] :
            calls[t][i].cb \in Notifies
              => /\ calls[t][i].phase = "entry"
                 /\ Legal(t)
                 /\ frame[t].event \in {"source_fill", "sink_drain"}

\* C26 witness: a fill of st_000 is about to return, notify_sink the one
\* callback it invoked, and a thread that was blocked in the on_sink_wait
\* of a pull is woken.
FillNotified ==
  \E t, u \in Threads :
    /\ pc[t] = "return"
    /\ frame[t].event = "source_fill"
    /\ frame[t].old_state = "st_000"
    /\ Len(calls[t]) = 1
    /\ pc[u] = "woken"
    /\ frame[u].event = "sink_pull"

\* Where the transition tables hold error, the exit tables hold none, and
\* so does every entry of the entry tables' rows of error.
TablesErrorQuiet ==
  \A N \in StageCounts : \A s \in States(N) : \A e \in Events :
    transition_table(N, s, e) = "error"
      => /\ exit_table(N, s, e) = "none"
         /\ entry_table(N, "error", e) = "none"

\* C27: a call whose event has error as next state in the state it finds -
\* an illegal fill or drain, or any event in error - has exit action none
\* and entry action none, and invokes no callback.
ErrorIsQuiet ==
  /\ TablesErrorQuiet
  /\ \A t \in Threads :
       (pc[t] # "idle"
          /\ transition_table(stages, frame[t].old_state, frame[t].event) = "error")
         => /\ calls[t] = <<>>
            /\ frame[t].exit_action = "none"
            /\ frame[t].entry_action = "none"
            /\ pc[t] \notin {"waiting", "woken"}

\* C27 witness: a fill of st_110 has committed error and is about to
\* return, no callback invoked.
IllegalFillQuiet ==
  \E t \in Threads :
    /\ pc[t] = "return"
    /\ frame[t].event = "source_fill"
    /\ frame[t].old_state = "st_110"
    /\ state_ = "error"
    /\ calls[t] = <<>>

\* The places in calls[t] where a move callback of the given phase stands.
MovesIn(t, phase) ==
  {i \in DOMAIN calls[t] :
     /\ calls[t][i].cb \in {"on_source_move", "on_sink_move"}
     /\ calls[t][i].phase = phase}

\* C28: with one producer and one consumer a call invokes a move callback
\* at most once; it makes an entry-phase move only if its exit action was a
\* wait, and with the pass-through policy it makes none.
MoveOnce ==
  Looping = {Producer, Consumer}
    => \A t \in Threads :
         /\ Cardinality(MovesIn(t, "exit") \cup MovesIn(t, "entry")) <= 1
         /\ MovesIn(t, "entry") # {}
              => (frame[t].exit_action \in Waits /\ policy = "blocking")

\* C28 witness: the producer's push waited in the all-full state and, once
\* resumed, has made its one move in the entry phase.
ProducerMovedOnce ==
  /\ Looping = {Producer, Consumer}
  /\ pc[Producer] = "return"
  /\ frame[Producer].exit_action = "source_wait"
  /\ MovesIn(Producer, "entry") = {2}

\* The next state the call of thread t looked up before its exit switch.
OwnNext(t) == transition_table(stages, frame[t].old_state, frame[t].event)

\* C29: a call that waited commits, once resumed, the next_state_ it finds
\* - what the last call to write it has left there - and takes as entry
\* action the entry of that state for its own event; while it holds the
\* lock for its entry phase, state_ is that next_state_ unless its entry
\* action moved.
ResumedCommitsShared ==
  /\ [][\A t \in Threads :
          (pc[t] = "commit" /\ pc'[t] = "entry" /\ Waited(t))
            => /\ state_' = next_state_
               /\ next_state_' = next_state_
               /\ frame'[t].entry_action =
                    entry_table(stages, next_state_, frame[t].event)]_vars
  /\ [](\A t \in Threads :
          (pc[t] = "entry" /\ Waited(t))
            => /\ state_ = next_state_
               /\ frame[t].entry_action =
                    entry_table(stages, state_, frame[t].event))

\* C29 witness: a push that waited in st_11, where it had looked up st_11,
\* has committed the st_10 a drain wrote meanwhile; its entry action is the
\* source_move of st_10.
ResumedCommitted ==
  \E t \in Threads :
    /\ pc[t] = "entry"
    /\ Waited(t)
    /\ frame[t].event = "source_push"
    /\ OwnNext(t) = "st_11"
    /\ state_ = "st_10"
    /\ frame[t].entry_action = "source_move"

\* C30: with one producer repeating fill; push and one consumer repeating
\* pull; drain under the blocking policy, state_ is an occupancy state -
\* never error - at every step of every interleaving, for both stage
\* counts.
ProducerConsumerSafe ==
  Looping = {Producer, Consumer} => state_ \in Occupancy(stages)

\* C30 witness: one producer and one consumer, three stages: the producer
\* is blocked in the push of a full pipeline while the consumer's drain is
\* about to commit.
PipelineFull ==
  /\ Looping = {Producer, Consumer}
  /\ stages = 3
  /\ state_ = "st_111"
  /\ pc[Producer] = "waiting"
  /\ pc[Consumer] = "commit"
  /\ frame[Consumer].event = "sink_drain"

\* C31: with one producer and one consumer under the blocking policy, a
\* push that is about to return leaves the source slot empty and a pull
\* that is about to return leaves the sink slot full, whether or not the
\* call waited.
HandoffReady ==
  Looping = {Producer, Consumer}
    => \A t \in Threads :
         pc[t] = "return"
           => /\ frame[t].event = "source_push"
                   => (state_ \in Occupancy(stages)
                         /\ SourceBit(stages, state_) = 0)
              /\ frame[t].event = "sink_pull"
                   => (state_ \in Occupancy(stages)
                         /\ SinkBit(stages, state_) = 1)

\* C31 witness: the consumer's pull, which waited in st_000, is about to
\* return with the item in the sink slot.
PullHandedOver ==
  /\ Looping = {Producer, Consumer}
  /\ pc[Consumer] = "return"
  /\ frame[Consumer].event = "sink_pull"
  /\ frame[Consumer].old_state = "st_000"
  /\ Waited(Consumer)
  /\ SinkBit(stages, state_) = 1


\* A thread suspended in a wait callback, or woken and not yet resumed.
Blocked(t) == pc[t] \in {"waiting", "woken"}

\* C32: with one producer and one consumer under the blocking policy and
\* fair scheduling, the two threads are never both suspended in a wait with
\* no wake-up on its way, and every push or pull that blocks eventually
\* returns.
NoLostWakeup ==
  /\ [](~(pc[Producer] = "waiting" /\ pc[Consumer] = "waiting"))
  /\ \A t \in {Producer, Consumer} : Blocked(t) ~> (pc[t] = "return")

\* C32 witness: the producer's push, which blocked in the full pipeline, is
\* about to return.
BlockedPushReturns ==
  /\ Looping = {Producer, Consumer}
  /\ pc[Producer] = "return"
  /\ frame[Producer].event = "source_push"
  /\ Waited(Producer)
  /\ frame[Producer].old_state = FullState(stages)


\* C33: with one producer and one consumer under the blocking policy, a
\* thread that has resumed from a wait callback and is about to commit
\* finds next_state_ equal to state_.
ResumedNextIsState ==
  \A t \in {Producer, Consumer} :
    pc[t] = "commit" /\ Waited(t) => next_state_ = state_


\* C33 witness: the consumer has resumed from its wait and is about to
\* commit; state_ has changed since its lookup and next_state_ equals it.
ConsumerResumed ==
  /\ Looping = {Producer, Consumer}
  /\ pc[Consumer] = "commit"
  /\ Waited(Consumer)
  /\ state_ # frame[Consumer].old_state
  /\ next_state_ = state_


\* C34: while debug_ is set or the message is not empty, a call of event()
\* other than shutdown prints "On event start" and "Pre exit event" before
\* the exit switch, "Post exit" after it, "Pre entry event" at the commit
\* and "Post entry event" after the entry switch.
TraceAtEachPhase ==
  [][\A t \in Threads :
       Tracing(frame'[t].msg, debug_) =>
         /\ pc[t] = "idle" /\ pc'[t] = "exit"
              => Emitted(t) \in {<<"start", "pre_exit">>,
                                 <<"start", "error", "pre_exit">>}
         /\ pc[t] \in {"exit", "woken"} /\ pc'[t] = "commit"
              => "post_exit" \in Range(Emitted(t))
         /\ pc[t] = "commit" /\ pc'[t] = "entry"
              => "pre_entry" \in Range(Emitted(t))
         /\ pc[t] \in {"entry", "woken"} /\ pc'[t] = "return"
              /\ frame'[t].result = "returned"
              => "post_entry" \in Range(Emitted(t))]_vars


DiagnosticsNeutral ==
  \A t \in Threads :
    pc[t] = "return" =>
      /\ frame[t].old_state = twin.state_
      /\ calls[t] = callbacks(stages, twin, frame[t].event)
      /\ \A msg \in Msgs :
           state_ = event(stages, twin, frame[t].event, msg).state_

\* C36 witness: a call with a message on the machine with debug off has
\* invoked on_sink_move and is about to return, while the second machine,
\* with debug on, has not yet been given the event.
TracedCallMoved ==
  \E t \in Threads :
    /\ pc[t] = "return"
    /\ frame[t].msg # ""
    /\ ~debug_
    /\ twin.debug_
    /\ calls[t] # <<>>
    /\ calls[t][1].cb = "on_sink_move"
    /\ calls[t] = callbacks(stages, twin, frame[t].event)


(***************************************************************************)
(* LocalQueryStateMachine of tiledb/sm/query/query_state.cc: a state, a    *)
(* mutex and event(), which replaces the state by the entry of             *)
(* local_query_tt for it and the event, under the mutex.  The states and   *)
(* the events are in the order of the rows and columns of the table.       *)
(***************************************************************************)
LocalQueryState ==
  <<"uninitialized", "everything_else", "success", "aborted", "cancelled",
    "error">>

LocalQueryEvent == <<"ready", "finish", "abort", "cancel">>

QueryStates == Range(LocalQueryState)

QueryEvents == Range(LocalQueryEvent)

\* index_of(state) and index_of(event): the position of the enumerator.
index_of(names, x) == CHOOSE i \in DOMAIN names : names[i] = x

\* local_query_tt, were a finish before initialization an error.
local_query_tt_strict ==
  << <<"everything_else", "error",   "aborted", "cancelled">>,
     <<"everything_else", "success", "aborted", "cancelled">>,
     <<"success",         "success", "error",   "success">>,
     <<"aborted",         "error",   "aborted", "aborted">>,
     <<"cancelled",       "error",   "error",   "cancelled">>,
     <<"error",           "error",   "error",   "error">> >>

\* local_query_tt, were ready to start a failed query again.
local_query_tt_retry ==
  << <<"everything_else", "success", "aborted", "cancelled">>,
     <<"everything_else", "success", "aborted", "cancelled">>,
     <<"success",         "success", "error",   "success">>,
     <<"aborted",         "error",   "aborted", "aborted">>,
     <<"cancelled",       "error",   "error",   "cancelled">>,
     <<"everything_else", "error",   "error",   "error">> >>

\* local_query_tt, were cancel to take effect on a finished query.
local_query_tt_cancel_wins ==
  << <<"everything_else", "success", "aborted", "cancelled">>,
     <<"everything_else", "success", "aborted", "cancelled">>,
     <<"success",         "success", "error",   "cancelled">>,
     <<"aborted",         "error",   "aborted", "aborted">>,
     <<"cancelled",       "error",   "error",   "cancelled">>,
     <<"error",           "error",   "error",   "error">> >>

\* local_query_tt: a row for each state, a column for each event.
local_query_tt ==
  << <<"everything_else", "success", "aborted", "cancelled">>,
     <<"everything_else", "success", "aborted", "cancelled">>,
     <<"success",         "success", "error",   "success">>,
     <<"aborted",         "error",   "aborted", "aborted">>,
     <<"cancelled",       "error",   "error",   "cancelled">>,
     <<"error",           "error",   "error",   "error">> >>

\* local_query_tt[index_of(state_)][index_of(e)]
QueryNext(s, e) ==
  local_query_tt[index_of(LocalQueryState, s)][index_of(LocalQueryEvent, e)]

\* is_initial(): the states a machine may be constructed in.
is_initial(s) == s \in {"uninitialized", "everything_else"}

\* The variables of the port state machine.
port == <<stages, policy, state_, next_state_, debug_, mutex_, pc, frame, out,
          calls, source_cv, sink_cv, trail, twin, turn, tally, trace>>

\* LocalQueryStateMachine(s), s an initial state; no port machine is run.
InitQuery ==
  /\ Constructed(2, "pass_through")
  /\ trail = Unfollowed
  /\ twin = NoTwin
  /\ turn = NoTurn
  /\ tally = NoTally
  /\ event_counter = 0
  /\ cout = <<>>
  /\ query_state_ \in {s \in QueryStates : is_initial(s)}
  /\ m_ = Free
  /\ query_pc = [t \in Threads |-> NoCall]

\* Thread t calls event(e).
QueryCall(t, e) ==
  /\ query_pc[t].at = "idle"
  /\ query_pc' = [query_pc EXCEPT
       ![t] = [at |-> "called", e |-> e, old |-> "-"]]
  /\ UNCHANGED <<query_state_, m_, port>>

\* std::lock_guard<std::mutex> lg{m_};
QueryLock(t) ==
  /\ query_pc[t].at = "called"
  /\ m_ = Free
  /\ m_' = t
  /\ query_pc' = [query_pc EXCEPT ![t].at = "locked"]
  /\ UNCHANGED <<query_state_, port>>

\* state_ = local_query_tt[index_of(state_)][index_of(e)];
QueryAssign(t) ==
  /\ query_pc[t].at = "locked"
  /\ query_state_' = QueryNext(query_state_, query_pc[t].e)
  /\ query_pc' = [query_pc EXCEPT
       ![t].at = "assigned", ![t].old = query_state_]
  /\ UNCHANGED <<m_, port>>

\* event() returns: the guard releases the mutex.
QueryReturn(t) ==
  /\ query_pc[t].at = "assigned"
  /\ m_' = Free
  /\ query_pc' = [query_pc EXCEPT ![t] = NoCall]
  /\ UNCHANGED <<query_state_, port>>

NextQuery ==
  \E t \in Threads :
    \/ \E e \in QueryEvents : QueryCall(t, e)
    \/ QueryLock(t)
    \/ QueryAssign(t)
    \/ QueryReturn(t)

SpecQuery == InitQuery /\ [][NextQuery]_vars

\* The states of a query that has ended.
Ended == {"success", "aborted", "cancelled", "error"}

\* C37: once the state is success, aborted, cancelled or error, every event
\* leaves it one of these four, and every event leaves error error.
EndedIsClosed ==
  [][/\ query_state_ \in Ended => query_state_' \in Ended
     /\ query_state_ = "error" => query_state_' = "error"]_vars

\* C37 witness: a ready has been processed in the state error and has left
\* it error.
ReadyAfterError ==
  \E t \in Threads :
    /\ query_pc[t] = [at |-> "assigned", e |-> "ready", old |-> "error"]
    /\ query_state_ = "error"

\* A call of event(e) that found the state s has assigned the state.
Assigned(t, s, e) ==
  /\ query_pc[t].at = "assigned"
  /\ query_pc[t].old = s
  /\ query_pc[t].e = e

\* C38: a cancel in success, aborted or cancelled, and an abort in aborted,
\* leave the state as it is; so does a ready in every state but
\* uninitialized, which it leaves everything_else.
NoEffect ==
  \A t \in Threads : \A s \in QueryStates :
    /\ (Assigned(t, s, "cancel") /\ s \in {"success", "aborted", "cancelled"})
         => query_state_ = s
    /\ Assigned(t, "aborted", "abort") => query_state_ = "aborted"
    /\ Assigned(t, s, "ready")
         => query_state_ = (IF s = "uninitialized" THEN "everything_else"
                                                   ELSE s)

\* C38 witness: a cancel has been processed in the state success.
CancelAfterSuccess ==
  \E t \in Threads :
    /\ Assigned(t, "success", "cancel")
    /\ query_state_ = "success"

\* C39: a finish in aborted or cancelled and an abort in success or
\* cancelled leave the state error; no event leaves it error when it was
\* uninitialized or everything_else.
ErrorTransitions ==
  \A t \in Threads : \A s \in QueryStates : \A e \in QueryEvents :
    Assigned(t, s, e) =>
      /\ (e = "finish" /\ s \in {"aborted", "cancelled"})
           => query_state_ = "error"
      /\ (e = "abort" /\ s \in {"success", "cancelled"})
           => query_state_ = "error"
      /\ is_initial(s) => query_state_ # "error"

\* C39 witness: a finish has been processed in the state cancelled and has
\* left it error.
FinishAfterCancel ==
  \E t \in Threads :
    /\ Assigned(t, "cancelled", "finish")
    /\ query_state_ = "error"

====
